---- MODULE Spec2Model ----
(***************************************************************************)
(* URIReference (src/rfc3986/uri.py) and IRIReference                      *)
(* (src/src/rfc3986/iri.py): parsing, construction, equality, authority    *)
(* decomposition, validity predicates, serialisation (unsplit) and the     *)
(* IRI -> URI encoding.                                                    *)
(*                                                                         *)
(* Text is a sequence of characters, each character a one-token string.    *)
(* A non-ASCII character is the token of its code point ("U+00E9").        *)
(* Python's None is the empty tuple and a present value s is <<s>>, so an  *)
(* empty string <<>> that is present, << <<>> >>, differs from None.       *)
(*                                                                         *)
(* The grammar patterns (misc.py), encode_component (normalizers.py) and   *)
(* to_str (compat.py) are imported by the two source files but are not     *)
(* among them; they are modelled from sections 4.1 and 4.5 of the          *)
(* specification (the RFC 3986 / RFC 3987 ABNF).  IP literals in brackets  *)
(* are left out of the host grammar: no input alphabet carries "[" or "]". *)
(***************************************************************************)
EXTENDS Integers, Sequences, FiniteSets, TLC

VARIABLES
    uri_string,    \* the text handed to from_string
    args,          \* the class and the arguments handed to its constructor
    self,          \* the Reference the operations are called on
    other,         \* the operand of the last comparison
    other_ref,     \* the Reference __eq__ converted its operand to
    idna_encoder,  \* the host-label encoder handed to the last encode()
    op,            \* the last operation called
    ret,           \* what it returned or raised
    calls          \* the labels the encoder was called on, in order

vars == <<uri_string, args, self, other, other_ref, idna_encoder, op, ret, calls>>

(***************************************************************************)
(* Optional values and text helpers                                        *)
(***************************************************************************)
None == <<>>

Some(s) == <<s>>

Val(x) == x[1]

\* Python truthiness of an optional text: None and "" are falsy.
Truthy(x) == x # None /\ Val(x) # <<>>

\* "x or None" (uri.py:17-21, iri.py:57-59)
OrNone(x) == IF Truthy(x) THEN x ELSE None

\* the least index >= i of s holding a character of stops, or Len(s) + 1
RECURSIVE FindFrom(_, _, _)
FindFrom(s, i, stops) ==
    IF i > Len(s) THEN Len(s) + 1
    ELSE IF s[i] \in stops THEN i
    ELSE FindFrom(s, i + 1, stops)

Slice(s, i, j) == IF j < i THEN <<>> ELSE SubSeq(s, i, j)

\* str.split(sep) for a one-character separator: "" splits into [""].
RECURSIVE Split(_, _)
Split(s, sep) ==
    LET i == FindFrom(s, 1, {sep})
    IN  IF i > Len(s) THEN <<s>>
        ELSE <<Slice(s, 1, i - 1)>> \o Split(Slice(s, i + 1, Len(s)), sep)

\* sep.join(parts)
RECURSIVE Join(_, _)
Join(parts, sep) ==
    IF Len(parts) = 0 THEN <<>>
    ELSE IF Len(parts) = 1 THEN parts[1]
    ELSE parts[1] \o <<sep>> \o Join(Tail(parts), sep)

\* all texts over alphabet of length at most n
RECURSIVE TextsUpTo(_, _)
TextsUpTo(alphabet, n) ==
    IF n = 0 THEN {<<>>}
    ELSE LET shorter == TextsUpTo(alphabet, n - 1)
         IN  shorter \cup {Append(t, c) : t \in shorter, c \in alphabet}

(***************************************************************************)
(* Character classes of RFC 3986 / RFC 3987                                *)
(***************************************************************************)
LowerLetters ==
    <<"a", "b", "c", "d", "e", "f", "g", "h", "i", "j", "k", "l", "m",
      "n", "o", "p", "q", "r", "s", "t", "u", "v", "w", "x", "y", "z">>

UpperLetters ==
    <<"A", "B", "C", "D", "E", "F", "G", "H", "I", "J", "K", "L", "M",
      "N", "O", "P", "Q", "R", "S", "T", "U", "V", "W", "X", "Y", "Z">>

LOWER == {LowerLetters[i] : i \in 1..Len(LowerLetters)}

UPPER == {UpperLetters[i] : i \in 1..Len(UpperLetters)}

\* str.lower()
LowerChar(c) ==
    IF c \in UPPER
    THEN LowerLetters[CHOOSE i \in 1..Len(UpperLetters) : UpperLetters[i] = c]
    ELSE c

Lower(s) == [i \in 1..Len(s) |-> LowerChar(s[i])]

ALPHA == LOWER \cup UPPER

DIGIT == {"0", "1", "2", "3", "4", "5", "6", "7", "8", "9"}

HEXDIG == DIGIT \cup {"A", "B", "C", "D", "E", "F", "a", "b", "c", "d", "e", "f"}

UNRESERVED == ALPHA \cup DIGIT \cup {"-", ".", "_", "~"}

SUB_DELIMS == {"!", "$", "&", "'", "(", ")", "*", "+", ",", ";", "="}

GEN_DELIMS == {":", "/", "?", "#", "[", "]", "@"}

\* the non-ASCII characters of the model, all inside RFC 3987's ucschar
UCSCHAR == {"U+00E9"}

\* ord(c) > 128 (iri.py:144)
OrdAbove128(c) == c \in UCSCHAR

\* s is a sequence of characters of class, or of "%" HEXDIG HEXDIG triplets
RECURSIVE MatchChars(_, _, _)
MatchChars(s, i, class) ==
    IF i > Len(s) THEN TRUE
    ELSE IF s[i] = "%"
         THEN /\ i + 2 <= Len(s)
              /\ s[i + 1] \in HEXDIG
              /\ s[i + 2] \in HEXDIG
              /\ MatchChars(s, i + 3, class)
    ELSE s[i] \in class /\ MatchChars(s, i + 1, class)

Extra(unicode) == IF unicode THEN UCSCHAR ELSE {}

PCHAR(unicode) == UNRESERVED \cup SUB_DELIMS \cup {":", "@"} \cup Extra(unicode)

\* SCHEME_MATCHER: a letter, then letters, digits, "+", "-", "."
SCHEME_MATCHER(s) ==
    /\ Len(s) >= 1
    /\ s[1] \in ALPHA
    /\ \A i \in 2..Len(s) : s[i] \in ALPHA \cup DIGIT \cup {"+", "-", "."}

\* PATH_MATCHER: path-abempty / absolute / noscheme / rootless / empty
PATH_MATCHER(s) == MatchChars(s, 1, PCHAR(FALSE) \cup {"/"})

\* QUERY_MATCHER: *( pchar / "/" / "?" )
QUERY_MATCHER(s) == MatchChars(s, 1, PCHAR(FALSE) \cup {"/", "?"})

\* FRAGMENT_MATCHER: *( pchar / "/" / "?" )
FRAGMENT_MATCHER(s) == MatchChars(s, 1, PCHAR(FALSE) \cup {"/", "?"})

NoMatch == [matched |-> FALSE, userinfo |-> None, host |-> None, port |-> None]

\* the three groups, once cut out, against their character classes: userinfo
\* and port are None when they took no part in the match
SubauthorityGroups(u, h, p, unicode) ==
    LET name == UNRESERVED \cup SUB_DELIMS \cup Extra(unicode)
    IN  IF /\ u # None => MatchChars(Val(u), 1, name \cup {":"})
           /\ MatchChars(h, 1, name)
           /\ p # None => \A i \in 1..Len(Val(p)) : Val(p)[i] \in DIGIT
        THEN [matched |-> TRUE, userinfo |-> u, host |-> Some(h), port |-> p]
        ELSE NoMatch

\* host [ ":" port ], the rest of the authority after the userinfo u
HostPortMatch(u, rest, unicode) ==
    LET col == FindFrom(rest, 1, {":"})
    IN  SubauthorityGroups(u,
                           Slice(rest, 1, col - 1),
                           IF col <= Len(rest)
                           THEN Some(Slice(rest, col + 1, Len(rest)))
                           ELSE None,
                           unicode)

\* [ userinfo "@" ] host [ ":" port ], anchored at both ends; the groups of a
\* match are the captured substrings, None for a group that took no part.
SubauthorityMatch(s, unicode) ==
    LET at == FindFrom(s, 1, {"@"})
    IN  IF at <= Len(s)
        THEN HostPortMatch(Some(Slice(s, 1, at - 1)), Slice(s, at + 1, Len(s)),
                           unicode)
        ELSE HostPortMatch(None, s, unicode)

SUBAUTHORITY_MATCHER(s) == SubauthorityMatch(s, FALSE)

ISUBAUTHORITY_MATCHER(s) == SubauthorityMatch(s, TRUE)

\* The reference pattern of RFC 3986 appendix B:
\*   (?:(scheme):)?(?://(authority))?(path)(?:\?(query))?(?:#(fragment))?
\* It matches every text; groups() is the five captured groups.
\* Each part of the pattern, tried at position i of s: the group it captures
\* (None when the optional part took no part) and the position after it.
SchemePart(s, d) ==
    IF d <= Len(s) /\ d > 1 /\ s[d] = ":"
    THEN [group |-> Some(Slice(s, 1, d - 1)), rest |-> d + 1]
    ELSE [group |-> None, rest |-> 1]

AuthorityPart(s, i) ==
    IF i + 1 <= Len(s) /\ s[i] = "/" /\ s[i + 1] = "/"
    THEN LET e == FindFrom(s, i + 2, {"/", "?", "#"})
         IN  [group |-> Some(Slice(s, i + 2, e - 1)), rest |-> e]
    ELSE [group |-> None, rest |-> i]

PathPart(s, i) ==
    LET e == FindFrom(s, i, {"?", "#"})
    IN  [group |-> Some(Slice(s, i, e - 1)), rest |-> e]

QueryPart(s, i) ==
    IF i <= Len(s) /\ s[i] = "?"
    THEN LET e == FindFrom(s, i + 1, {"#"})
         IN  [group |-> Some(Slice(s, i + 1, e - 1)), rest |-> e]
    ELSE [group |-> None, rest |-> i]

FragmentPart(s, i) ==
    IF i <= Len(s) /\ s[i] = "#" THEN Some(Slice(s, i + 1, Len(s))) ELSE None

ReferenceGroups(s) ==
    LET scheme    == SchemePart(s, FindFrom(s, 1, {":", "/", "?", "#"}))
        authority == AuthorityPart(s, scheme.rest)
        path      == PathPart(s, authority.rest)
        query     == QueryPart(s, path.rest)
    IN  [scheme    |-> scheme.group,
         authority |-> authority.group,
         path      |-> path.group,
         query     |-> query.group,
         fragment  |-> FragmentPart(s, query.rest)]

URI_MATCHER(s) == ReferenceGroups(s)

IRI_MATCHER(s) == ReferenceGroups(s)

(***************************************************************************)
(* URIReference (uri.py)                                                   *)
(***************************************************************************)
NoRef ==
    [cls |-> "NoneType", scheme |-> None, authority |-> None, path |-> None,
     query |-> None, fragment |-> None, encoding |-> ""]

\* URIReference.__new__ storing query and fragment as they are given
URIReference_keeps_empty(scheme, authority, path, query, fragment) ==
    [cls       |-> "URIReference",
     scheme    |-> OrNone(scheme),
     authority |-> OrNone(authority),
     path      |-> OrNone(path),
     query     |-> query,
     fragment  |-> fragment,
     encoding  |-> ""]

\* URIReference.__new__
URIReference(scheme, authority, path, query, fragment) ==
    [cls       |-> "URIReference",
     scheme    |-> OrNone(scheme),
     authority |-> OrNone(authority),
     path      |-> OrNone(path),
     query     |-> OrNone(query),
     fragment  |-> OrNone(fragment),
     encoding  |-> ""]

\* tuple(ref): the five components
AsTuple(r) == <<r.scheme, r.authority, r.path, r.query, r.fragment>>

\* line 46: URIReference(*groups), the five captured groups in order
URIReference_of_groups(split_uri) ==
    URIReference(split_uri.scheme, split_uri.authority, split_uri.path,
                 split_uri.query, split_uri.fragment)

\* URIReference.from_string
URIReference_from_string(s) == URIReference_of_groups(URI_MATCHER(s))

Raise(exc, arg) == [kind |-> "raise", val |-> [exc |-> exc, arg |-> arg]]

Return(kind, val) == [kind |-> kind, val |-> val]

NoInfo == [userinfo |-> None, host |-> None, port |-> None]

\* _match_subauthority: SUBAUTHORITY_MATCHER for a URIReference (uri.py:64),
\* ISUBAUTHORITY_MATCHER for an IRIReference (iri.py:86-87)
match_subauthority(r) ==
    IF r.cls = "IRIReference"
    THEN ISUBAUTHORITY_MATCHER(Val(r.authority))
    ELSE SUBAUTHORITY_MATCHER(Val(r.authority))

\* authority_info answering "nothing there" where the code raises
authority_info_lenient(r) ==
    IF ~Truthy(r.authority) THEN Return("info", NoInfo)
    ELSE LET match == match_subauthority(r)
         IN  IF ~match.matched THEN Return("info", NoInfo)
             ELSE Return("info", [userinfo |-> match.userinfo,
                                  host     |-> match.host,
                                  port     |-> match.port])

\* lines 66-73: InvalidAuthority for no match, else the groups of the match
MatchedInfo(r, match) ==
    IF ~match.matched THEN Raise("InvalidAuthority", r.authority)
    ELSE Return("info", [userinfo |-> match.userinfo,
                         host     |-> match.host,
                         port     |-> match.port])

\* authority_info
authority_info(r) ==
    IF ~Truthy(r.authority) THEN Return("info", NoInfo)
    ELSE MatchedInfo(r, match_subauthority(r))

\* try: authority = self.authority_info() / except InvalidAuthority: return
\* None / return authority[key]
InfoItem(authority, key) ==
    IF authority.kind = "raise" THEN Return("opt", None)
    ELSE Return("opt", authority.val[key])

\* the host property
host(r) == InfoItem(authority_info(r), "host")

\* the port property
port(r) == InfoItem(authority_info(r), "port")

\* the userinfo property
userinfo(r) == InfoItem(authority_info(r), "userinfo")

DigitChars == <<"0", "1", "2", "3", "4", "5", "6", "7", "8", "9">>

DigitValue(c) == (CHOOSE i \in 1..Len(DigitChars) : DigitChars[i] = c) - 1

RECURSIVE Number(_)
Number(s) ==
    IF s = <<>> THEN 0
    ELSE 10 * Number(SubSeq(s, 1, Len(s) - 1)) + DigitValue(s[Len(s)])

\* h is four dot-separated decimal numbers
IsDottedQuad(h) ==
    LET parts == Split(h, ".")
    IN  /\ Len(parts) = 4
        /\ \A i \in 1..4 :
              /\ parts[i] # <<>>
              /\ \A j \in 1..Len(parts[i]) : parts[i][j] \in DIGIT

\* some octet of the dotted quad h is above 255
OctetOutOfRange(h) ==
    LET parts == Split(h, ".")
    IN  \E i \in 1..4 : Number(parts[i]) > 255

\* authority_is_valid that also range-checks the octets of an IPv4-shaped host
authority_is_valid_ranged(r) ==
    \/ r.authority = None
    \/ /\ match_subauthority(r).matched
       /\ LET h == Val(match_subauthority(r).host)
          IN  ~(IsDottedQuad(h) /\ OctetOutOfRange(h))

authority_is_valid(r) ==
    r.authority = None \/ match_subauthority(r).matched

scheme_is_valid(r) ==
    r.scheme = None \/ SCHEME_MATCHER(Val(r.scheme))

path_is_valid(r) ==
    r.path = None \/ PATH_MATCHER(Val(r.path))

query_is_valid(r) ==
    r.query = None \/ QUERY_MATCHER(Val(r.query))

fragment_is_valid(r) ==
    r.fragment = None \/ FRAGMENT_MATCHER(Val(r.fragment))

\* is_valid with the fragment validator left out of the list
is_valid_no_fragment(r) ==
    /\ authority_is_valid(r)
    /\ scheme_is_valid(r)
    /\ path_is_valid(r)
    /\ query_is_valid(r)

is_valid(r) ==
    /\ authority_is_valid(r)
    /\ scheme_is_valid(r)
    /\ path_is_valid(r)
    /\ query_is_valid(r)
    /\ fragment_is_valid(r)

\* unsplit
unsplit(r) ==
    (IF Truthy(r.scheme) THEN Val(r.scheme) \o <<":">> ELSE <<>>)
    \o (IF Truthy(r.authority) THEN <<"/", "/">> \o Val(r.authority) ELSE <<>>)
    \o (IF Truthy(r.path) THEN Val(r.path) ELSE <<>>)
    \o (IF Truthy(r.query) THEN <<"?">> \o Val(r.query) ELSE <<>>)
    \o (IF Truthy(r.fragment) THEN <<"#">> \o Val(r.fragment) ELSE <<>>)

(***************************************************************************)
(* Comparison operands: a Reference, a raw 5-element tuple, a text string, *)
(* a byte string, or a value of another type (an int).                     *)
(***************************************************************************)
Operand(kind, val) == [kind |-> kind, val |-> val]

\* the five elements a tuple operand unpacks into
Elements(x) == IF x.kind = "ref" THEN AsTuple(x.val) ELSE x.val

\* URIReference.__eq__, lines 24-32: the Reference the operand is converted
\* to, or the TypeError raised
URIReference_other_ref(x) ==
    IF x.kind \in {"tuple", "ref"}
    THEN LET e == Elements(x)
         IN  Return("ref", URIReference(e[1], e[2], e[3], e[4], e[5]))
    ELSE IF x.kind = "str"
    THEN Return("ref", URIReference_from_string(x.val))
    ELSE Raise("TypeError", None)

\* the scheme of a 5-tuple lower-cased
FoldScheme(e) == <<IF e[1] = None THEN None ELSE Some(Lower(Val(e[1]))),
                   e[2], e[3], e[4], e[5]>>

\* URIReference.__eq__ comparing schemes without regard to letter case
URIReference_eq_folding(r, x) ==
    LET other_ref1 == URIReference_other_ref(x)
    IN  IF other_ref1.kind = "raise" THEN other_ref1
        ELSE Return("bool", FoldScheme(AsTuple(r))
                              = FoldScheme(AsTuple(other_ref1.val)))

\* URIReference.__eq__, lines 34-37
URIReference_eq(r, x) ==
    LET other_ref1 == URIReference_other_ref(x)
    IN  IF other_ref1.kind = "raise" THEN other_ref1
        ELSE LET naive_equality == AsTuple(r) = AsTuple(other_ref1.val)
             IN  IF ~naive_equality THEN Return("bool", FALSE)
                 ELSE Return("bool", TRUE)

(***************************************************************************)
(* normalizers.encode_component and compat.to_str                          *)
(***************************************************************************)
Utf8 == "utf-8"

Latin1 == "latin-1"

Encodings == {Utf8, Latin1}

\* the bytes of one character outside the ASCII unreserved / reserved set,
\* percent-encoded under the declared encoding
PercentEncoded(c, encoding) ==
    CASE c = "U+00E9" /\ encoding = Utf8   -> <<"%", "C", "3", "%", "A", "9">>
      [] c = "U+00E9" /\ encoding = Latin1 -> <<"%", "E", "9">>
      [] c = "^"                           -> <<"%", "5", "E">>
      [] c = "%"                           -> <<"%", "2", "5">>
      [] c = " "                           -> <<"%", "2", "0">>

NON_PCT_ENCODED == UNRESERVED \cup GEN_DELIMS \cup SUB_DELIMS

RECURSIVE EncodeText(_, _)
EncodeText(s, encoding) ==
    IF s = <<>> THEN <<>>
    ELSE (IF s[1] \in NON_PCT_ENCODED THEN <<s[1]>>
          ELSE PercentEncoded(s[1], encoding))
         \o EncodeText(Tail(s), encoding)

encode_component(x, encoding) ==
    IF x = None THEN None ELSE Some(EncodeText(Val(x), encoding))

\* a text or byte string value, as an encoder may return either
Text(s) == [t |-> "str", v |-> s]

Bytes(s) == [t |-> "bytes", v |-> s]

\* compat.to_str: bytes are decoded, text is returned as it is
to_str(b) == b.v

(***************************************************************************)
(* IRIReference (iri.py)                                                   *)
(***************************************************************************)
\* IRIReference.__new__
IRIReference(scheme, authority, path, query, fragment, encoding) ==
    [cls       |-> "IRIReference",
     scheme    |-> OrNone(scheme),
     authority |-> OrNone(authority),
     path      |-> OrNone(path),
     query     |-> query,
     fragment  |-> fragment,
     encoding  |-> encoding]

\* lines 104-111: cls(...) of the groups, path, query and fragment encoded
IRIReference_of_groups(split_iri, encoding) ==
    IRIReference(split_iri.scheme,
                 split_iri.authority,
                 encode_component(split_iri.path, encoding),
                 encode_component(split_iri.query, encoding),
                 encode_component(split_iri.fragment, encoding),
                 encoding)

\* IRIReference.from_string
IRIReference_from_string(iri_string, encoding) ==
    IRIReference_of_groups(IRI_MATCHER(to_str(iri_string)), encoding)

\* IRIReference.__eq__, lines 70-81: the Reference the operand is converted
\* to, or the TypeError raised (from_string fails with TypeError on a value
\* that is neither text nor bytes)
IRIReference_other_ref(x) ==
    IF x.kind \in {"tuple", "ref"}
    THEN LET e == Elements(x)
         IN  Return("ref", IRIReference(e[1], e[2], e[3], e[4], e[5], Utf8))
    ELSE IF x.kind = "str"
    THEN Return("ref", IRIReference_from_string(Text(x.val), Utf8))
    ELSE IF x.kind = "bytes"
    THEN Return("ref", IRIReference_from_string(Bytes(x.val), Utf8))
    ELSE Raise("TypeError", None)

\* IRIReference.__eq__, line 84
IRIReference_eq(r, x) ==
    LET other_ref1 == IRIReference_other_ref(x)
    IN  IF other_ref1.kind = "raise" THEN other_ref1
        ELSE Return("bool", AsTuple(r) = AsTuple(other_ref1.val))

\* the conversion of the operand of r == x, dispatched on r's class
OtherRef(r, x) ==
    IF r.cls = "IRIReference" THEN IRIReference_other_ref(x)
    ELSE URIReference_other_ref(x)

\* r == x, dispatched on r's class
Eq(r, x) ==
    IF r.cls = "IRIReference" THEN IRIReference_eq(r, x) ELSE URIReference_eq(r, x)

(***************************************************************************)
(* IRIReference.encode                                                     *)
(***************************************************************************)
\* The host-label encoder handed to encode(): not given (given = FALSE), and
\* then the idna module is importable or not (idna), and its codec accepts the
\* labels it is given or signals IDNAError (codec_ok); or a caller's function
\* (custom): "tag" returns the label prefixed with "x-", "strict" does the
\* same and raises ValueError on an empty label.
Encoder(given, idna, codec_ok, custom) ==
    [given |-> given, idna |-> idna, codec_ok |-> codec_ok, custom |-> custom]

RECURSIVE BasicChars(_)
BasicChars(s) ==
    IF s = <<>> THEN <<>>
    ELSE (IF OrdAbove128(s[1]) THEN <<>> ELSE <<s[1]>>) \o BasicChars(Tail(s))

RECURSIVE Deltas(_)
Deltas(s) ==
    IF s = <<>> THEN <<>>
    ELSE (IF OrdAbove128(s[1]) THEN <<"9", "c", "a">> ELSE <<>>) \o Deltas(Tail(s))

\* idna.encode(name, strict=True, std3_rules=True) of the third-party codec:
\* the ASCII-compatible form "xn--" basic-characters "-" deltas, as bytes.
\* The delta digits are the codec's; the model keeps those of U+00E9.
idna_encode(name) ==
    LET basic == BasicChars(name)
    IN  Bytes(<<"x", "n", "-", "-">>
              \o basic
              \o (IF basic = <<>> THEN <<>> ELSE <<"-">>)
              \o Deltas(name))

\* one call of the encoder on a label: what it returns or raises
EncodeLabel(r, enc, name) ==
    IF enc.given
    THEN IF enc.custom = "strict" /\ name = <<>>
         THEN Raise("ValueError", Some(name))
         ELSE Return("label", Text(<<"x", "-">> \o name))
    ELSE IF \E i \in 1..Len(name) : OrdAbove128(name[i])
         THEN IF enc.codec_ok
              THEN Return("label", idna_encode(Lower(name)))
              ELSE Raise("InvalidAuthority", r.authority)
         ELSE Return("label", Text(name))

\* [to_str(idna_encoder(part)) for part in parts], left to right: the labels
\* encoded so far, the calls made, and the exception that ended it, if any
RECURSIVE EncodeParts(_, _, _, _)
EncodeParts(r, enc, parts, acc) ==
    IF parts = <<>> THEN acc
    ELSE LET got   == EncodeLabel(r, enc, parts[1])
             calls1 == Append(acc.calls, parts[1])
         IN  IF got.kind = "raise"
             THEN [acc EXCEPT !.calls = calls1, !.raised = got]
             ELSE EncodeParts(r, enc, Tail(parts),
                              [acc EXCEPT !.calls = calls1,
                                          !.out = Append(acc.out, to_str(got.val))])

NotRaised == Return("none", None)

\* lines 153-160: the host, its labels encoded and joined again
EncodedHost(r, enc, h) ==
    IF Truthy(h)
    THEN EncodeParts(r, enc, Split(Val(h), "."),
                     [out |-> <<>>, calls |-> <<>>, raised |-> NotRaised])
    ELSE [out |-> <<>>, calls |-> <<>>, raised |-> NotRaised]

\* lines 162-167
WithUserinfo(r, u, authority) ==
    IF u # None
    THEN Val(encode_component(u, r.encoding)) \o <<"@">> \o authority
    ELSE authority

\* lines 169-170 with "if self.port:" for "if self.port is not None:"
WithPort_if_truthy(p, authority) ==
    IF Truthy(p) THEN authority \o <<":">> \o Val(p) ELSE authority

\* lines 169-170
WithPort(p, authority) ==
    IF p # None THEN authority \o <<":">> \o Val(p) ELSE authority

\* lines 172-179 with query and fragment handed over in each other's place
EncodeResult_swapped(r, authority) ==
    URIReference(r.scheme, authority, r.path, r.fragment, r.query)

\* lines 172-179.  The encoding keyword belongs to the URIReference of
\* iri.py's own package; the five components are stored as uri.py stores them.
EncodeResult(r, authority) ==
    URIReference(r.scheme, authority, r.path, r.query, r.fragment)

\* encode(idna_encoder): the value returned or the exception raised, with the
\* labels the encoder was called on
encode(r, enc) ==
    IF ~Truthy(r.authority)
    THEN [ret |-> Return("ref", EncodeResult(r, r.authority)), calls |-> <<>>]
    ELSE IF ~enc.given /\ ~enc.idna
    THEN [ret |-> Raise("MissingDependencyError", None), calls |-> <<>>]
    ELSE LET hosted == EncodedHost(r, enc, host(r).val)
             authority == WithPort(port(r).val,
                              WithUserinfo(r, userinfo(r).val,
                                           Join(hosted.out, ".")))
         IN  IF hosted.raised.kind = "raise"
             THEN [ret |-> hosted.raised, calls |-> hosted.calls]
             ELSE [ret |-> Return("ref", EncodeResult(r, Some(authority))),
                   calls |-> hosted.calls]

(***************************************************************************)
(* The operations as actions.  A session starts from the inputs (op =      *)
(* "init"), creates self by construction or by from_string, and then calls *)
(* operations on it; a Reference is a tuple and no operation assigns to    *)
(* it.                                                                     *)
(***************************************************************************)
NoArgs(cls, encoding) == [cls |-> cls, argv |-> <<>>, encoding |-> encoding]

Args(cls, argv, encoding) == [cls |-> cls, argv |-> argv, encoding |-> encoding]

NoOperand == Operand("none", None)

NoEncoder == Encoder(FALSE, FALSE, FALSE, "")

\* cls(*argv): the constructor of the class args names
Construct(a) ==
    IF a.cls = "IRIReference"
    THEN IRIReference(a.argv[1], a.argv[2], a.argv[3], a.argv[4], a.argv[5],
                      a.encoding)
    ELSE URIReference(a.argv[1], a.argv[2], a.argv[3], a.argv[4], a.argv[5])

\* cls.from_string(uri_string)
Parse(a, s) ==
    IF a.cls = "IRIReference" THEN IRIReference_from_string(Text(s), a.encoding)
    ELSE URIReference_from_string(s)

InitWith(s, a) ==
    /\ uri_string = s
    /\ args = a
    /\ self = NoRef
    /\ other = NoOperand
    /\ other_ref = NoRef
    /\ idna_encoder = NoEncoder
    /\ op = "init"
    /\ ret = Return("none", None)
    /\ calls = <<>>

Created(name, r) ==
    /\ op = "init"
    /\ self' = r
    /\ op' = name
    /\ ret' = Return("ref", r)
    /\ UNCHANGED <<uri_string, args, other, other_ref, idna_encoder, calls>>

\* self = cls(scheme, authority, path, query, fragment)
New ==
    /\ args.argv # <<>>
    /\ Created("new", Construct(args))

\* self = cls.from_string(uri_string)
FromString ==
    /\ args.argv = <<>>
    /\ Created("from_string", Parse(args, uri_string))

\* an operation on self that takes no argument and returns result
Called(name, result) ==
    /\ op # "init"
    /\ op' = name
    /\ ret' = result
    /\ other' = NoOperand
    /\ other_ref' = NoRef
    /\ idna_encoder' = NoEncoder
    /\ calls' = <<>>
    /\ UNCHANGED <<uri_string, args, self>>

Unsplit == Called("unsplit", Return("str", unsplit(self)))

AuthorityInfo == Called("authority_info", authority_info(self))

Host == Called("host", host(self))

Port == Called("port", port(self))

Userinfo == Called("userinfo", userinfo(self))

IsValid == Called("is_valid", Return("bool", is_valid(self)))

AuthorityIsValid ==
    Called("authority_is_valid", Return("bool", authority_is_valid(self)))

SchemeIsValid == Called("scheme_is_valid", Return("bool", scheme_is_valid(self)))

PathIsValid == Called("path_is_valid", Return("bool", path_is_valid(self)))

QueryIsValid == Called("query_is_valid", Return("bool", query_is_valid(self)))

FragmentIsValid ==
    Called("fragment_is_valid", Return("bool", fragment_is_valid(self)))

\* self == x has converted the operand x and answered.  A comparison leaves
\* nothing behind for the next one, so each is made on self as it was created.
Compared(x, converted, answer) ==
    /\ op \in {"new", "from_string"}
    /\ op' = "eq"
    /\ other' = x
    /\ other_ref' = (IF converted.kind = "ref" THEN converted.val ELSE NoRef)
    /\ ret' = answer
    /\ idna_encoder' = NoEncoder
    /\ calls' = <<>>
    /\ UNCHANGED <<uri_string, args, self>>

\* self == x
CompareWith(x) == Compared(x, OtherRef(self, x), Eq(self, x))

\* URIReference.from_string(self.unsplit()) == self, after an unsplit
Reparse ==
    /\ op = "unsplit"
    /\ LET reparsed == URIReference_from_string(ret.val)
       IN  /\ op' = "reparse"
           /\ other' = Operand("ref", self)
           /\ other_ref' = URIReference_other_ref(Operand("ref", self)).val
           /\ ret' = [kind |-> "roundtrip",
                      val  |-> [reparsed |-> reparsed,
                                equal    |-> URIReference_eq(reparsed,
                                                 Operand("ref", self)).val]]
    /\ idna_encoder' = NoEncoder
    /\ calls' = <<>>
    /\ UNCHANGED <<uri_string, args, self>>

\* self.encode(idna_encoder) of an IRIReference has ended with result
Encoded(enc, result) ==
    /\ op # "init"
    /\ self.cls = "IRIReference"
    /\ op' = "encode"
    /\ idna_encoder' = enc
    /\ ret' = result.ret
    /\ calls' = result.calls
    /\ other' = NoOperand
    /\ other_ref' = NoRef
    /\ UNCHANGED <<uri_string, args, self>>

\* self.encode(idna_encoder)
EncodeWith(enc) == Encoded(enc, encode(self, enc))

Encoders ==
    {Encoder(FALSE, FALSE, FALSE, ""),
     Encoder(FALSE, TRUE, TRUE, ""),
     Encoder(FALSE, TRUE, FALSE, ""),
     Encoder(TRUE, FALSE, FALSE, "tag"),
     Encoder(TRUE, TRUE, TRUE, "strict")}

Encode == \E enc \in Encoders : EncodeWith(enc)

(***************************************************************************)
(* Spec: URI references parsed from every text over UriAlphabet            *)
(***************************************************************************)
MaxUriLen == 6

UriAlphabet == {"a", ":", "/", "?", "#"}

Init ==
    \E s \in TextsUpTo(UriAlphabet, MaxUriLen) :
        InitWith(s, NoArgs("URIReference", ""))

Next == FromString \/ Unsplit \/ Reparse \/ IsValid

Spec == Init /\ [][Next]_vars

\* C1: round trip.  For every URIReference r parsed from a text s with
\* r.is_valid() true, URIReference.from_string(r.unsplit()) == r: the
\* re-parsed serialisation has the same five components.
RoundTrip ==
    (op = "reparse" /\ is_valid(self))
        => (ret.val.equal /\ AsTuple(ret.val.reparsed) = AsTuple(self))

(***************************************************************************)
(* SpecHosts: "https://" host for every dotted quad over Octets and for    *)
(* the bracket-free hosts of the test fixtures (tests/conftest.py)         *)
(***************************************************************************)
Octets == {<<"0">>, <<"1">>, <<"1", "2", "7">>, <<"2", "5", "5">>, <<"2", "5", "6">>}

DottedQuads == {Join(<<a, b, c, d>>, ".") : a \in Octets, b \in Octets,
                                            c \in Octets, d \in Octets}

\* valid_hosts and invalid_hosts, less the IP literals
FixtureHosts ==
    {<<"w", "w", "w", ".", "e", "x", "a", "m", "p", "l", "e", ".", "c", "o", "m">>,
     <<"l", "o", "c", "a", "l", "h", "o", "s", "t">>,
     <<"h", "t", "t", "p", "-", "b", "i", "n", ".", "o", "r", "g">>,
     <<"l", "o", "c", "a", "l", "h", "o", "s", "t", ":", "8", "0", ":", "8", "0", ":", "8", "0">>,
     <<"U+2603">>}

Https == <<"h", "t", "t", "p", "s">>

HttpsUri(h) == Https \o <<":", "/", "/">> \o h

Host256 == <<"2", "5", "6", ".", "2", "5", "6", ".", "2", "5", "6", ".", "2", "5", "6">>

InitHosts ==
    \E h \in DottedQuads \cup FixtureHosts :
        InitWith(HttpsUri(h), NoArgs("URIReference", ""))

NextHosts == FromString \/ AuthorityInfo \/ Host \/ AuthorityIsValid \/ IsValid

SpecHosts == InitHosts /\ [][NextHosts]_vars

MaxAuthLen == 5

AuthAlphabet == {"a", "1", ".", ":", "@", "^"}

InitAuth ==
    \E a \in TextsUpTo(AuthAlphabet, MaxAuthLen) :
        InitWith(<<>>, Args("URIReference", <<None, Some(a), None, None, None>>, ""))

NextAuth == New \/ AuthorityInfo \/ Host \/ Port \/ Userinfo

SpecAuth == InitAuth /\ [][NextAuth]_vars

\* userinfo "@" host ":" port, the absent parts left out
Recompose(info) ==
    (IF info.userinfo = None THEN <<>> ELSE Val(info.userinfo) \o <<"@">>)
    \o (IF info.host = None THEN <<>> ELSE Val(info.host))
    \o (IF info.port = None THEN <<>> ELSE <<":">> \o Val(info.port))

\* the groups of the subauthority pattern on the authority of r
Groups(r) ==
    IF r.authority = None THEN NoMatch ELSE match_subauthority(r)

\* C4: authority_info() returns userinfo, host and port all absent when the
\* authority is absent, raises InvalidAuthority exactly when the authority is
\* present and does not match the subauthority grammar, and otherwise returns
\* the three captured groups verbatim (they recompose to the authority).  The
\* accessors host, port and userinfo never raise: each is the field of
\* authority_info() when it succeeds and absent when it raises.
AuthorityAccess ==
    LET m == Groups(self)
        fails == self.authority # None /\ ~m.matched
    IN  /\ op = "authority_info" =>
              /\ self.authority = None => ret = Return("info", NoInfo)
              /\ (ret.kind = "raise") <=> fails
              /\ fails => ret = Raise("InvalidAuthority", self.authority)
              /\ (self.authority # None /\ ~fails) =>
                    /\ ret.kind = "info"
                    /\ ret.val.userinfo = m.userinfo
                    /\ ret.val.host = m.host
                    /\ ret.val.port = m.port
                    /\ Recompose(ret.val) = Val(self.authority)
        /\ op = "host" => ret = Return("opt", IF fails THEN None ELSE m.host)
        /\ op = "port" => ret = Return("opt", IF fails THEN None ELSE m.port)
        /\ op = "userinfo" =>
              ret = Return("opt", IF fails THEN None ELSE m.userinfo)

AuthorityAccessSeen ==
    /\ op = "authority_info"
    /\ self.authority = Some(<<"a", "@", "a", "@">>)
    /\ ret = Raise("InvalidAuthority", self.authority)
    /\ host(self) = Return("opt", None)

(***************************************************************************)
(* SpecValid: URIReferences constructed from components that match their   *)
(* grammar pattern and from components that fail it                        *)
(***************************************************************************)
SchemeSamples == {None, Some(<<"a", "1">>), Some(<<"1", "a">>), Some(<<"a", "^">>)}

AuthoritySamples ==
    {None, Some(<<"a", "@", "a", ":", "1">>), Some(<<"a", "@", "a", "@", "a">>),
     Some(<<"a", ":", "a">>)}

PathSamples == {None, Some(<<"/", "a">>), Some(<<"^">>)}

QuerySamples == {None, Some(<<"a", "?">>), Some(<<"#">>)}

FragmentSamples == {None, Some(<<"/", "?">>), Some(<<"#">>)}

InitValid ==
    \E s \in SchemeSamples, a \in AuthoritySamples, p \in PathSamples,
       q \in QuerySamples, f \in FragmentSamples :
        InitWith(<<>>, Args("URIReference", <<s, a, p, q, f>>, ""))

NextValid ==
    \/ New
    \/ SchemeIsValid
    \/ AuthorityIsValid
    \/ PathIsValid
    \/ QueryIsValid
    \/ FragmentIsValid
    \/ IsValid
    \/ AuthorityInfo

SpecValid == InitValid /\ [][NextValid]_vars

ValidityOps ==
    {"scheme_is_valid", "authority_is_valid", "path_is_valid", "query_is_valid",
     "fragment_is_valid", "is_valid"}

\* what a component predicate must answer: true on an absent component,
\* false on a text that fails the pattern
Answers(component, matches) ==
    /\ ret.kind = "bool"
    /\ component = None => ret.val
    /\ (component # None /\ ~matches) => ~ret.val

\* C5: is_valid() is true iff the five component predicates are all true;
\* each predicate is true on an absent component, false on a text that fails
\* its grammar pattern whatever the other four components are, and never
\* raises; authority_is_valid() is false exactly when authority_info() raises
\* InvalidAuthority.
Validity ==
    /\ op \in ValidityOps => ret.kind = "bool"
    /\ op = "is_valid" =>
          ret.val = (/\ scheme_is_valid(self)
                     /\ authority_is_valid(self)
                     /\ path_is_valid(self)
                     /\ query_is_valid(self)
                     /\ fragment_is_valid(self))
    /\ op = "scheme_is_valid" =>
          Answers(self.scheme,
                  self.scheme # None /\ SCHEME_MATCHER(Val(self.scheme)))
    /\ op = "authority_is_valid" =>
          /\ Answers(self.authority, Groups(self).matched)
          /\ ~ret.val <=> authority_info(self) = Raise("InvalidAuthority",
                                                       self.authority)
    /\ op = "path_is_valid" =>
          Answers(self.path, self.path # None /\ PATH_MATCHER(Val(self.path)))
    /\ op = "query_is_valid" =>
          Answers(self.query, self.query # None /\ QUERY_MATCHER(Val(self.query)))
    /\ op = "fragment_is_valid" =>
          Answers(self.fragment,
                  self.fragment # None /\ FRAGMENT_MATCHER(Val(self.fragment)))

ValiditySeen ==
    /\ op = "is_valid"
    /\ ret = Return("bool", FALSE)
    /\ self.fragment = Some(<<"#">>)
    /\ scheme_is_valid(self)
    /\ authority_is_valid(self)
    /\ self.authority # None
    /\ path_is_valid(self)
    /\ query_is_valid(self)

(***************************************************************************)
(* SpecCmp: References of both classes compared with References, raw       *)
(* 5-tuples, text strings, byte strings and an int                         *)
(***************************************************************************)
MaxCmpLen == 2

CmpAlphabet == {"a", "A", ":", "/", "?", "#"}

Classes == {"URIReference", "IRIReference"}

DefaultEncoding(cls) == IF cls = "IRIReference" THEN Utf8 ELSE ""

CmpTuples ==
    {<<s, a, p, q, f>> :
        s \in {None, Some(<<>>), Some(<<"a">>), Some(<<"A">>)},
        a \in {None, Some(<<"b">>)},
        p \in {None, Some(<<"/">>)},
        q \in {None, Some(<<>>), Some(<<"q">>)},
        f \in {None, Some(<<>>)}}

CmpOperands ==
    {Operand("tuple", e) : e \in CmpTuples}
    \cup {Operand("ref", Construct(Args(c, e, DefaultEncoding(c)))) :
             c \in Classes, e \in CmpTuples}
    \cup {Operand("str", s) : s \in TextsUpTo(CmpAlphabet, MaxCmpLen)}
    \cup {Operand("bytes", s) : s \in TextsUpTo(CmpAlphabet, MaxCmpLen)}
    \cup {Operand("int", None)}

InitCmp ==
    \E c \in Classes, e \in CmpTuples :
        InitWith(<<>>, Args(c, e, DefaultEncoding(c)))

Compare == \E x \in CmpOperands : CompareWith(x)

NextCmp == New \/ Compare

SpecCmp == InitCmp /\ [][NextCmp]_vars

\* what is to hold of a comparison with a string or with a value of another
\* kind: a text string compares as from_string of it, of self's class; an
\* IRIReference takes a byte string as a string too, a URIReference takes it
\* as another kind; another kind raises TypeError
EqualityOfStrings ==
    /\ other.kind = "str" =>
          ret = Eq(self, Operand("ref", Parse(args, other.val)))
    /\ (other.kind = "bytes" /\ self.cls = "IRIReference") =>
          ret = Eq(self, Operand("ref", Parse(args, other.val)))
    /\ (other.kind = "bytes" /\ self.cls = "URIReference") =>
          ret = Raise("TypeError", None)
    /\ other.kind = "int" => ret = Raise("TypeError", None)

\* C3 as stated: for an operand that is a Reference or a 5-element tuple,
\* r == x holds iff the five components are pairwise equal, with no case
\* folding; a string compares as from_string of it; any other kind raises
\* TypeError.
EqualityByComponents ==
    op = "eq" =>
        /\ other.kind \in {"tuple", "ref"} =>
              ret = Return("bool", AsTuple(self) = Elements(other))
        /\ EqualityOfStrings

\* the five elements as the constructor of cls stores them: an empty string
\* as absent, but for the query and the fragment of an IRIReference
Stored(cls, e) ==
    <<OrNone(e[1]), OrNone(e[2]), OrNone(e[3]),
      IF cls = "IRIReference" THEN e[4] ELSE OrNone(e[4]),
      IF cls = "IRIReference" THEN e[5] ELSE OrNone(e[5])>>

\* C3, amended: for an operand that is a Reference or a 5-element tuple,
\* r == x holds iff the five components of r equal, pairwise and with no case
\* folding, the five elements of x as the constructor of r's class stores
\* them (an empty string as absent, but for the query and fragment of an
\* IRIReference); a string compares as from_string of it; any other kind
\* raises TypeError.
EqualityContract ==
    op = "eq" =>
        /\ other.kind \in {"tuple", "ref"} =>
              ret = Return("bool", AsTuple(self) = Stored(self.cls, Elements(other)))
        /\ EqualityOfStrings

EqualityContractSeen ==
    /\ op = "eq"
    /\ self.cls = "URIReference"
    /\ AsTuple(self) = <<Some(<<"a">>), None, None, None, None>>
    /\ other = Operand("tuple", <<Some(<<"a">>), None, None, Some(<<>>), None>>)
    /\ ret = Return("bool", TRUE)

(***************************************************************************)
(* SpecNew: References of both classes constructed from every 5-tuple of   *)
(* absent, empty and non-empty components, or parsed from every text over  *)
(* NewAlphabet; then serialised, compared with a tuple, and encoded        *)
(***************************************************************************)
MaxNewLen == 3

NewAlphabet == {"a", ":", "/", "?", "#", "U+00E9"}

Raw(x) == {None, Some(<<>>), Some(<<x>>)}

NewTuples ==
    {<<s, a, p, q, f>> : s \in Raw("s"), a \in Raw("a"), p \in Raw("/"),
                         q \in Raw("q"), f \in Raw("f")}

EmptyTuples ==
    {<<s, a, p, q, f>> : s \in {None, Some(<<>>)}, a \in {None, Some(<<>>)},
                         p \in {None, Some(<<>>)}, q \in {None, Some(<<>>)},
                         f \in {None, Some(<<>>)}}

InitNew ==
    \E c \in Classes :
        \/ \E e \in NewTuples : InitWith(<<>>, Args(c, e, DefaultEncoding(c)))
        \/ \E s \in TextsUpTo(NewAlphabet, MaxNewLen) :
               InitWith(s, NoArgs(c, DefaultEncoding(c)))

CompareTuple == \E e \in EmptyTuples : CompareWith(Operand("tuple", e))

NextNew == New \/ FromString \/ Unsplit \/ CompareTuple \/ Encode

SpecNew == InitNew /\ [][NextNew]_vars

\* the References the state holds
References ==
    {r \in {self, other_ref} : r.cls # "NoneType"}
    \cup (IF ret.kind = "ref" THEN {ret.val} ELSE {})

Empty == Some(<<>>)

\* C7: every URIReference, however it was produced (constructed, parsed,
\* converted from a comparison operand, returned by encode), holds no empty
\* string in any component, an empty string given to the constructor being
\* stored as absent; every IRIReference holds none in scheme, authority or
\* path, and stores an empty query or fragment given to its constructor as
\* the empty string, distinct from absent.
ConstructionInvariant ==
    /\ \A r \in References :
          /\ r.cls = "URIReference" => \A i \in 1..5 : AsTuple(r)[i] # Empty
          /\ r.cls = "IRIReference" => \A i \in 1..3 : AsTuple(r)[i] # Empty
    /\ (op = "new" /\ self.cls = "URIReference") =>
          \A i \in 1..5 :
              AsTuple(self)[i] = (IF args.argv[i] = Empty THEN None
                                  ELSE args.argv[i])
    /\ (op = "new" /\ self.cls = "IRIReference") =>
          /\ \A i \in 1..3 :
                AsTuple(self)[i] = (IF args.argv[i] = Empty THEN None
                                    ELSE args.argv[i])
          /\ self.query = args.argv[4]
          /\ self.fragment = args.argv[5]

ConstructionInvariantSeen ==
    /\ op = "encode"
    /\ self.cls = "IRIReference"
    /\ self.query = Empty
    /\ self.fragment = Empty
    /\ ret.kind = "ref"
    /\ ret.val.cls = "URIReference"
    /\ ret.val.query = None
    /\ ret.val.fragment = None

\* the components concatenated, each with its delimiter, a component being
\* present when it is not None
Concatenation(r) ==
    (IF r.scheme # None THEN Val(r.scheme) \o <<":">> ELSE <<>>)
    \o (IF r.authority # None THEN <<"/", "/">> \o Val(r.authority) ELSE <<>>)
    \o (IF r.path # None THEN Val(r.path) ELSE <<>>)
    \o (IF r.query # None THEN <<"?">> \o Val(r.query) ELSE <<>>)
    \o (IF r.fragment # None THEN <<"#">> \o Val(r.fragment) ELSE <<>>)

\* C2: unsplit() is the concatenation of the stored components, each present
\* one with its delimiter, present meaning not None: a present but empty
\* query or fragment of an IRIReference still emits "?" or "#".
UnsplitConcatenation ==
    op = "unsplit" => ret = Return("str", Concatenation(self))

(***************************************************************************)
(* SpecIri: IRIReferences constructed with every authority                 *)
(* [userinfo "@"] host [":" port] over Userinfos, hosts of at most         *)
(* MaxLabels labels and Ports, and with authorities that do not match the  *)
(* subauthority grammar; then encoded with every encoder                   *)
(***************************************************************************)
MaxLabels == 2

Labels == {<<>>, <<"a">>, <<"A", "U+00E9">>}

RECURSIVE HostsUpTo(_)
HostsUpTo(n) ==
    IF n = 0 THEN {}
    ELSE IF n = 1 THEN Labels
    ELSE LET shorter == HostsUpTo(n - 1)
         IN  shorter \cup {h \o <<".">> \o l : h \in shorter, l \in Labels}

Userinfos == {None, Some(<<>>), Some(<<"u">>), Some(<<"U+00E9">>)}

Ports == {None, Some(<<>>), Some(<<"8">>)}

MalformedAuthorities ==
    {<<"a", "@", "a", "@", "a">>, <<"a", ":", "a">>, <<"^">>}

IriAuthorities ==
    {Recompose([userinfo |-> u, host |-> Some(h), port |-> p]) :
        u \in Userinfos, h \in HostsUpTo(MaxLabels), p \in Ports}
    \cup MalformedAuthorities

InitIri ==
    \E a \in IriAuthorities, p \in {None, Some(<<"/">>)},
       q \in {None, Some(<<>>), Some(<<"q">>)}, f \in {None, Some(<<>>)},
       e \in Encodings :
        InitWith(<<>>, Args("IRIReference", <<None, Some(a), p, q, f>>, e))

NextIri == New \/ Encode \/ AuthorityInfo

SpecIri == InitIri /\ [][NextIri]_vars

\* an encoder is at hand: one was given, or the idna module is importable
Usable(enc) == enc.given \/ enc.idna

\* C6: encode() signals a failed authority decomposition: when the authority
\* is present and does not match the subauthority grammar, encode() fails
\* with InvalidAuthority and returns no URIReference.
EncodeSignalsInvalidAuthority ==
    (/\ op = "encode"
     /\ Usable(idna_encoder)
     /\ self.authority # None
     /\ ~Groups(self).matched)
        => ret = Raise("InvalidAuthority", self.authority)

\* what the encoder returns for a label, as text
LabelText(r, enc, name) ==
    LET got == EncodeLabel(r, enc, name)
    IN  IF got.kind = "raise" THEN <<"raised">> ELSE to_str(got.val)

\* [encode_component(u) "@"] labels joined with "." [":" p], where the
\* encoder was called on called, in order
Assembled(r, enc, u, called, p) ==
    (IF u = None THEN <<>>
     ELSE EncodeText(Val(u), r.encoding) \o <<"@">>)
    \o Join([i \in 1..Len(called) |-> LabelText(r, enc, called[i])], ".")
    \o (IF p = None THEN <<>> ELSE <<":">> \o Val(p))

IsAscii(s) == \A i \in 1..Len(s) : ~OrdAbove128(s[i])

\* encode() returned a URIReference for an authority that decomposes
EncodedAuthority ==
    /\ op = "encode"
    /\ self.authority # None
    /\ Groups(self).matched
    /\ ret.kind = "ref"

\* C9 as stated: when the authority decomposes into userinfo u, host h and
\* port p, the encoder is called exactly once per "."-separated label of h,
\* in order, and the authority returned is [encode_component(u) "@"] + the
\* encoded labels joined with "." + [":" p]; the default encoder passes a
\* label with no code point above U+0080 through unchanged.
EncoderCalledPerLabel ==
    EncodedAuthority =>
        LET m == Groups(self)
            labels == Split(Val(m.host), ".")
        IN  /\ calls = labels
            /\ ret.val.authority
                   = Some(Assembled(self, idna_encoder, m.userinfo, labels, m.port))
            /\ (~idna_encoder.given /\ IsAscii(Val(m.host))) =>
                   ret.val.authority
                       = Some(Assembled(self, idna_encoder, m.userinfo, <<>>, None)
                              \o Val(m.host)
                              \o (IF m.port = None THEN <<>>
                                  ELSE <<":">> \o Val(m.port)))

\* C9, amended: when the authority decomposes into userinfo u, host h and
\* port p and h is not empty, the encoder is called exactly once per
\* "."-separated label of h, in order; when h is empty the encoder is not
\* called.  The authority returned is [encode_component(u) "@"] + the encoded
\* labels joined with "." (nothing for an empty h) + [":" p]; the default
\* encoder passes a label with no code point above U+0080 through unchanged.
AuthorityAssembly ==
    EncodedAuthority =>
        LET m == Groups(self)
            labels == IF Val(m.host) = <<>> THEN <<>> ELSE Split(Val(m.host), ".")
        IN  /\ calls = labels
            /\ ret.val.authority
                   = Some(Assembled(self, idna_encoder, m.userinfo, labels, m.port))
            /\ (~idna_encoder.given /\ IsAscii(Val(m.host))) =>
                   ret.val.authority
                       = Some(Assembled(self, idna_encoder, m.userinfo, <<>>, None)
                              \o Val(m.host)
                              \o (IF m.port = None THEN <<>>
                                  ELSE <<":">> \o Val(m.port)))

AuthorityAssemblySeen ==
    /\ EncodedAuthority
    /\ ~idna_encoder.given
    /\ self.encoding = Latin1
    /\ self.authority = Some(<<"U+00E9", "@", "A", "U+00E9", ".", "a", ":">>)
    /\ calls = <<<<"A", "U+00E9">>, <<"a">>>>
    /\ ret.val.authority
           = Some(<<"%", "E", "9", "@", "x", "n", "-", "-", "a", "-", "9", "c", "a",
                    ".", "a", ":">>)

\* C10 as stated: the URIReference u that encode() returns for an
\* IRIReference i has u.path == i.path, u.query == i.query and
\* u.fragment == i.fragment, also when i's query or fragment is present but
\* empty; and i has the components and encoding it was constructed with.
EncodeKeepsRest ==
    (op = "encode" /\ ret.kind = "ref") =>
        /\ ret.val.path = self.path
        /\ ret.val.query = self.query
        /\ ret.val.fragment = self.fragment
        /\ self = Construct(args)

\* C10, amended: the URIReference u that encode() returns for an
\* IRIReference i has u.path == i.path, and u.query == i.query and
\* u.fragment == i.fragment unless i's query or fragment is the empty string,
\* which u holds as absent; and i has the components and encoding it was
\* constructed with.
EncodeKeepsRestButEmpty ==
    (op = "encode" /\ ret.kind = "ref") =>
        /\ ret.val.path = self.path
        /\ ret.val.query = (IF self.query = Empty THEN None ELSE self.query)
        /\ ret.val.fragment = (IF self.fragment = Empty THEN None
                               ELSE self.fragment)
        /\ self = Construct(args)

EncodeKeepsRestSeen ==
    /\ op = "encode"
    /\ ret.kind = "ref"
    /\ self.authority # None
    /\ self.path = Some(<<"/">>)
    /\ self.query = Some(<<"q">>)
    /\ self.fragment = Empty
    /\ ret.val.query = Some(<<"q">>)
    /\ ret.val.fragment = None

====
